---- MODULE Spec2Model ----
(***************************************************************************)
(* Model of src/file_encoder.rs: the FileEncoder variants, the extension   *)
(* resolution matching_variant/ext, and the durable write FileEncoder::save *)
(* (temp file, buffered encode, fsync, rename onto the destination).        *)
(***************************************************************************)
EXTENDS Integers, Sequences, FiniteSets, TLC

\* ------------------------------------------------------------------ bounds
\* Number of bytes a codec produces for one image.
EncLen == 3
\* Number of distinct images a caller may pass.
NumImages == 2
\* Longest file stem and longest candidate list given to matching_variant.
MaxStem == 1
MaxCands == 2
\* Longest path given to save when its temp file is placed.
MaxPathLen == 4
\* Largest quality value found in a persisted configuration.
MaxQuality == 300

\* BufWriter::with_capacity(64 * 1024, ..), scaled down to a capacity of 2 bytes
\* so that an encoding of EncLen bytes both overflows the buffer while encoding
\* and leaves a remainder in it when the writer goes out of scope.
BufCap == 2

\* ------------------------------------------------------------ data model
\* enum CompressionLevel { Best, Default, Fast }
CompressionLevel == {"Best", "Default", "Fast"}

Jpg(q) == [tag |-> "Jpg", quality |-> q]
Png(c) == [tag |-> "Png", compressionlevel |-> c]
Bmp == [tag |-> "Bmp"]
WebP == [tag |-> "WebP"]

\* impl Default for FileEncoder
DefaultEncoder == Png("Default")
\* No encoder value (nothing returned yet).
NoVariant == [tag |-> "unset"]

\* The threads that call save concurrently, the destination paths they save
\* to, the images and the encoder values they save with.
Procs == {"t1", "t2"}
Paths == {"out.png", "out.jpg"}
Images == 1..NumImages
SaveVariants == {Jpg(80), Png("Fast")}

\* A file name bound to no file, and a file holding the given bytes.
Absent == [exists |-> FALSE]
File(bytes) == [exists |-> TRUE, bytes |-> bytes]
\* What a destination may hold before any save: some earlier file.
OldContent == File(<<[codec |-> [format |-> "old"], img |-> 0, pos |-> 1]>>)

\* ------------------------------------------------------------------ codec
\* The quality handed to JpegEncoder::new_with_quality: `*quality as u8`
\* truncates the u32 to its low 8 bits, and the codec clamps to 1..100.
CodecQuality(q) ==
    LET u8 == q % 256
    IN  IF u8 < 1 THEN 1 ELSE IF u8 > 100 THEN 100 ELSE u8

\* The settings the codec is driven with by the match on self.
CodecSetting(self) ==
    CASE self.tag = "Jpg" -> [format |-> "jpeg", quality |-> CodecQuality(self.quality)]
      [] self.tag = "Png" -> [format |-> "png", compression |-> self.compressionlevel]
      [] self.tag = "Bmp" -> [format |-> "bmp"]
      [] self.tag = "WebP" -> [format |-> "webp"]

\* The complete byte sequence the codec writes for `image` under `self`:
\* byte k is identified by the codec setting, the image and its position.
Encoding(self, image) ==
    [k \in 1..EncLen |-> [codec |-> CodecSetting(self), img |-> image, pos |-> k]]

\* Every complete encoding of some image under some variant.
CompleteEncodings == {File(Encoding(v, i)) : v \in SaveVariants, i \in Images}

Prefix(s, n) == SubSeq(s, 1, n)

\* ---------------------------------------------------------------- strings
\* A string is a sequence of one-character strings.
UpperAlphabet == <<"A", "B", "C", "D", "E", "F", "G", "H", "I", "J", "K", "L", "M",
                   "N", "O", "P", "Q", "R", "S", "T", "U", "V", "W", "X", "Y", "Z">>
LowerAlphabet == <<"a", "b", "c", "d", "e", "f", "g", "h", "i", "j", "k", "l", "m",
                   "n", "o", "p", "q", "r", "s", "t", "u", "v", "w", "x", "y", "z">>

\* (A lowercasing that leaves every character as it is.)
LowerCharIdentity(c) == c

\* char::to_lowercase on the ASCII letters.
LowerChar(c) ==
    IF \E i \in 1..Len(UpperAlphabet) : UpperAlphabet[i] = c
    THEN LowerAlphabet[CHOOSE i \in 1..Len(UpperAlphabet) : UpperAlphabet[i] = c]
    ELSE c

\* str::to_lowercase
to_lowercase(s) == [i \in 1..Len(s) |-> LowerChar(s[i])]

\* s starts with pat.
StartsWith(s, pat) == Len(s) >= Len(pat) /\ SubSeq(s, 1, Len(pat)) = pat

\* str::replace(from, to): every non-overlapping match, left to right.
RECURSIVE replace(_, _, _)
replace(s, from, to) ==
    IF s = <<>> THEN <<>>
    ELSE IF StartsWith(s, from)
         THEN to \o replace(SubSeq(s, Len(from) + 1, Len(s)), from, to)
         ELSE <<s[1]>> \o replace(Tail(s), from, to)

\* Option<String>
None == [some |-> FALSE]
Some(s) == [some |-> TRUE, val |-> s]

\* A path cut at its separators: the segments between them, empty ones too.
RECURSIVE Split(_, _)
Split(p, cur) ==
    IF p = <<>> THEN <<cur>>
    ELSE IF p[1] = "/" THEN <<cur>> \o Split(Tail(p), <<>>)
         ELSE Split(Tail(p), Append(cur, p[1]))

RootDir == <<"/">>
CurDir == <<".">>
ParentDir == <<".", ".">>

\* The segments from index i on that Path::components keeps: empty segments
\* (repeated or trailing separators) are dropped, and so is "." unless it
\* starts a relative path.
RECURSIVE KeptSegments(_, _, _)
KeptSegments(segs, i, hasRoot) ==
    IF i > Len(segs) THEN <<>>
    ELSE LET seg == segs[i]
             keep == seg # <<>> /\ (seg # CurDir \/ (i = 1 /\ ~hasRoot))
         IN  (IF keep THEN <<seg>> ELSE <<>>) \o KeptSegments(segs, i + 1, hasRoot)

\* Path::components: RootDir for a leading separator, then the kept segments.
components(p) ==
    LET hasRoot == p # <<>> /\ p[1] = "/"
    IN  (IF hasRoot THEN <<RootDir>> ELSE <<>>) \o KeptSegments(Split(p, <<>>), 1, hasRoot)

\* Component::Normal
IsNormal(c) == c \notin {RootDir, CurDir, ParentDir}

\* Path::file_name: the last component when it is a normal one.
file_name(p) ==
    LET comps == components(p)
    IN  IF comps # <<>> /\ IsNormal(comps[Len(comps)])
        THEN Some(comps[Len(comps)]) ELSE None

\* Path::extension: the part of the file name after its last dot; None when
\* there is no file name, no dot, or nothing before the last dot.
extension(p) ==
    LET fname == file_name(p)
    IN  IF ~fname.some THEN None
        ELSE LET name == fname.val
                 dots == {i \in 1..Len(name) : name[i] = "."}
             IN  IF dots = {} THEN None
                 ELSE LET d == CHOOSE i \in dots : \A j \in dots : j <= i
                      IN  IF d = 1 THEN None ELSE Some(SubSeq(name, d + 1, Len(name)))

\* strum's Display for FileEncoder: the name of the variant.
Display(v) ==
    CASE v.tag = "Jpg" -> <<"J", "p", "g">>
      [] v.tag = "Png" -> <<"P", "n", "g">>
      [] v.tag = "Bmp" -> <<"B", "m", "p">>
      [] v.tag = "WebP" -> <<"W", "e", "b", "P">>

\* (An ext() that forgets to lowercase the variant name.)
extNotLowercased(v) == Display(v)

\* FileEncoder::ext
ext(v) == to_lowercase(Display(v))

\* The normalized extension matching_variant compares with (lines 46-51).
NormalizedExt(p) ==
    LET e == extension(p)
    IN  replace(to_lowercase(IF e.some THEN e.val ELSE <<>>),
                <<"j", "p", "e", "g">>, <<"j", "p", "g">>)

\* (A loop that falls back to the first candidate instead of the default.)
FirstMatchElseFirst(variants, e, i) ==
    LET hits == {j \in i..Len(variants) : ext(variants[j]) = e}
    IN  IF hits # {} THEN variants[CHOOSE j \in hits : \A k \in hits : j <= k]
        ELSE IF variants # <<>> THEN variants[1] ELSE DefaultEncoder

\* (A loop that keeps going and returns the last match.)
FirstMatchTakesLast(variants, e, i) ==
    LET hits == {j \in i..Len(variants) : ext(variants[j]) = e}
    IN  IF hits # {} THEN variants[CHOOSE j \in hits : \A k \in hits : j >= k]
        ELSE DefaultEncoder

\* The loop of lines 53-57 from index i on, then the default of lines 59-61.
RECURSIVE FirstMatch(_, _, _)
FirstMatch(variants, e, i) ==
    IF i > Len(variants) THEN DefaultEncoder
    ELSE IF ext(variants[i]) = e THEN variants[i]
         ELSE FirstMatch(variants, e, i + 1)

\* FileEncoder::matching_variant
matching_variant(p, variants) == FirstMatch(variants, NormalizedExt(p), 1)

\* --------------------------------------------------------------- state
VARIABLES
    fs,          \* destination path -> content, or Absent
    tmp,         \* thread -> content of its own temp file, or Absent
    pc,          \* thread -> position inside save
    self_,       \* thread -> the encoder value save is called on
    image,       \* thread -> the image argument
    path,        \* thread -> the path argument
    buf,         \* thread -> bytes held in the BufWriter
    written,     \* thread -> number of bytes the codec has written so far
    result,      \* thread -> what save returned
    crashed,     \* the process has crashed
    before,      \* history: destination content when the call began
    interfered,  \* history: another thread renamed onto this call's path
    failedStep,  \* history: the steps of this call that failed
    renamedBy,   \* history: path -> thread whose rename onto it was last
    persisted,   \* history: thread -> the content its rename moved
    steps,       \* history: thread -> the steps of this call begun so far, in order
    mvBase,      \* matching_variant: the path without its extension part
    mvExt,       \* matching_variant: the extension the path is spelled with
    mvVariants,  \* matching_variant: the `variants` argument
    mvResult,    \* matching_variant: the value returned
    mvPc,        \* matching_variant: "off", "ready" (inputs chosen) or "done"
    cfgDoc,      \* configuration: the persisted document being deserialized
    cfgLoaded,   \* configuration: what deserializing it gave
    cfgCodec,    \* configuration: the codec setting save derives from it
    cfgPc,       \* configuration: "off", "ready", "loaded", "rejected", "setup"
    dPath,       \* temp placement: the path argument of save
    dTempDir,    \* temp placement: the directory the temp file is created in
    dPc          \* temp placement: "off", "ready" or "created"

svars == <<fs, tmp, pc, self_, image, path, buf, written, result,
          crashed, before, interfered, failedStep, renamedBy, persisted, steps>>

mvars == <<mvBase, mvExt, mvVariants, mvResult, mvPc>>

cvars == <<cfgDoc, cfgLoaded, cfgCodec, cfgPc>>

dvars == <<dPath, dTempDir, dPc>>

\* The variables save does not touch.
pvars == <<mvars, cvars, dvars>>

vars == <<svars, pvars>>

NoResult == "none"
OkResult == "Ok"
ErrCreate == "Failed to create temporary file"
ErrEncode == "ImageError"
ErrSync == "Failed to sync to disk"
ErrPersist == "Failed to persist file"

SaveInit ==
    /\ fs \in [Paths -> {Absent, OldContent}]
    /\ tmp = [p \in Procs |-> Absent]
    /\ pc = [p \in Procs |-> "idle"]
    /\ self_ = [p \in Procs |-> DefaultEncoder]
    /\ image = [p \in Procs |-> 1]
    /\ path = [p \in Procs |-> "out.png"]
    /\ buf = [p \in Procs |-> <<>>]
    /\ written = [p \in Procs |-> 0]
    /\ result = [p \in Procs |-> NoResult]
    /\ crashed = FALSE
    /\ before = [p \in Procs |-> Absent]
    /\ interfered = [p \in Procs |-> FALSE]
    /\ failedStep = [p \in Procs |-> {}]
    /\ renamedBy = [d \in Paths |-> "nobody"]
    /\ persisted = [p \in Procs |-> Absent]
    /\ steps = [p \in Procs |-> <<>>]

\* No resolution is in progress.
MvOff ==
    /\ mvBase = <<>>
    /\ mvExt = None
    /\ mvVariants = <<>>
    /\ mvResult = NoVariant
    /\ mvPc = "off"

\* No configuration is being loaded.
CfgOff ==
    /\ cfgDoc = [tag |-> "unset"]
    /\ cfgLoaded = [ok |-> FALSE, error |-> "unset"]
    /\ cfgCodec = [format |-> "unset"]
    /\ cfgPc = "off"

\* No temp file is being placed.
DirOff ==
    /\ dPath = <<>>
    /\ dTempDir = <<>>
    /\ dPc = "off"

Init == SaveInit /\ MvOff /\ CfgOff /\ DirOff

\* ------------------------------------------------------------------ save
\* (A writer that wraps the destination file itself.)
WriteTargetDest(p) == "dest"

\* The file the BufWriter wraps: `&mut tmp_file` (never the destination).
WriteTarget(p) == "tmp"

\* Appending bytes to the file the writer wraps.
WriteBytes(p, bytes) ==
    IF WriteTarget(p) = "tmp"
    THEN /\ tmp' = [tmp EXCEPT ![p] = File(@.bytes \o bytes)]
         /\ fs' = fs
    ELSE /\ fs' = [fs EXCEPT ![path[p]] = File((IF @.exists THEN @.bytes ELSE <<>>) \o bytes)]
         /\ tmp' = tmp

\* (A clean-up on error that removes every temp file of the directory.)
ReturnErrSweep(p, err, step) ==
    /\ tmp' = [q \in Procs |-> Absent]
    /\ buf' = [buf EXCEPT ![p] = <<>>]
    /\ result' = [result EXCEPT ![p] = err]
    /\ failedStep' = [failedStep EXCEPT ![p] = @ \cup {step}]
    /\ pc' = [pc EXCEPT ![p] = "returned"]

\* An early return with Err: tmp_file goes out of scope, which removes the
\* temp file (NamedTempFile's drop).
ReturnErr(p, err, step) ==
    /\ tmp' = [tmp EXCEPT ![p] = Absent]
    /\ buf' = [buf EXCEPT ![p] = <<>>]
    /\ result' = [result EXCEPT ![p] = err]
    /\ failedStep' = [failedStep EXCEPT ![p] = @ \cup {step}]
    /\ pc' = [pc EXCEPT ![p] = "returned"]

\* The encoder is at work: its call is recorded once, when it begins.
EncodeBegun(s) ==
    IF s # <<>> /\ s[Len(s)] = "encode" THEN s ELSE Append(s, "encode")

\* The text of a destination path.
PathText(d) ==
    CASE d = "out.png" -> <<"o", "u", "t", ".", "p", "n", "g">>
      [] d = "out.jpg" -> <<"o", "u", "t", ".", "j", "p", "g">>

\* (An encoder picked again from the extension of the destination path.)
ActiveEncoderByExtension(p) ==
    matching_variant(PathText(path[p]), <<Jpg(80), Png("Fast")>>)

\* The encoder save dispatches on: `match self` (line 79).
ActiveEncoder(p) == self_[p]

\* save is entered and the temp file is created in the parent directory
\* (lines 68-73); creation may fail.
CreateTemp(p) ==
    /\ ~crashed
    /\ UNCHANGED pvars
    /\ steps' = [steps EXCEPT ![p] = <<"create">>]
    /\ pc[p] = "idle"
    /\ \E v \in SaveVariants, i \in Images, d \in Paths, ok \in BOOLEAN :
        /\ self_' = [self_ EXCEPT ![p] = v]
        /\ image' = [image EXCEPT ![p] = i]
        /\ path' = [path EXCEPT ![p] = d]
        /\ before' = [before EXCEPT ![p] = fs[d]]
        /\ IF ok
           THEN /\ tmp' = [tmp EXCEPT ![p] = File(<<>>)]
                /\ pc' = [pc EXCEPT ![p] = "encode"]
                /\ result' = [result EXCEPT ![p] = NoResult]
                /\ failedStep' = [failedStep EXCEPT ![p] = {}]
           ELSE /\ tmp' = tmp
                /\ pc' = [pc EXCEPT ![p] = "returned"]
                /\ result' = [result EXCEPT ![p] = ErrCreate]
                /\ failedStep' = [failedStep EXCEPT ![p] = {"create"}]
    /\ buf' = [buf EXCEPT ![p] = <<>>]
    /\ written' = [written EXCEPT ![p] = 0]
    /\ interfered' = [interfered EXCEPT ![p] = FALSE]
    /\ persisted' = [persisted EXCEPT ![p] = Absent]
    /\ UNCHANGED <<fs, crashed, renamedBy>>

\* The codec writes its next byte into the BufWriter (lines 79-115).  A byte
\* that fits is only buffered; when the buffer is full it is first written to
\* the wrapped file, and a failure of that write is an error of the encoder,
\* which `?` returns.
EncodeWrite(p) ==
    /\ ~crashed
    /\ UNCHANGED pvars
    /\ steps' = [steps EXCEPT ![p] = EncodeBegun(@)]
    /\ pc[p] = "encode"
    /\ written[p] < EncLen
    /\ LET b == Encoding(ActiveEncoder(p), image[p])[written[p] + 1]
       IN  IF Len(buf[p]) + 1 <= BufCap
           THEN /\ buf' = [buf EXCEPT ![p] = Append(@, b)]
                /\ written' = [written EXCEPT ![p] = @ + 1]
                /\ UNCHANGED <<fs, tmp, pc, result, failedStep>>
           ELSE \/ /\ WriteBytes(p, buf[p])
                   /\ buf' = [buf EXCEPT ![p] = <<b>>]
                   /\ written' = [written EXCEPT ![p] = @ + 1]
                   /\ UNCHANGED <<pc, result, failedStep>>
                \/ /\ ReturnErr(p, ErrEncode, "encode")
                   /\ UNCHANGED <<fs, written>>
    /\ UNCHANGED <<self_, image, path, crashed, before, interfered,
                   renamedBy, persisted>>

\* The codec itself rejects the image (unsupported colour type, internal
\* failure): `?` returns the error.
EncodeError(p) ==
    /\ ~crashed
    /\ UNCHANGED pvars
    /\ steps' = [steps EXCEPT ![p] = EncodeBegun(@)]
    /\ pc[p] = "encode"
    /\ ReturnErr(p, ErrEncode, "encode")
    /\ UNCHANGED <<fs, self_, image, path, written, crashed, before,
                   interfered, renamedBy, persisted>>

\* Line 116: the BufWriter goes out of scope.  Its drop writes the buffered
\* bytes to the wrapped file and discards the outcome: when that write fails
\* only part of the buffer (n bytes, n < Len) has reached the file, and save
\* goes on.
DropWriter(p) ==
    /\ ~crashed
    /\ UNCHANGED pvars
    /\ steps' = [steps EXCEPT ![p] = Append(@, "flush")]
    /\ pc[p] = "encode"
    /\ written[p] = EncLen
    /\ \/ /\ WriteBytes(p, buf[p])
          /\ UNCHANGED failedStep
       \/ /\ Len(buf[p]) > 0
          /\ \E n \in 0..(Len(buf[p]) - 1) : WriteBytes(p, Prefix(buf[p], n))
          /\ failedStep' = [failedStep EXCEPT ![p] = @ \cup {"flush"}]
    /\ buf' = [buf EXCEPT ![p] = <<>>]
    /\ pc' = [pc EXCEPT ![p] = "sync"]
    /\ UNCHANGED <<self_, image, path, written, result, crashed, before,
                   interfered, renamedBy, persisted>>

\* (An fsync that is tried again when it fails.)
SyncAllRetry(p) ==
    /\ ~crashed
    /\ UNCHANGED pvars
    /\ steps' = [steps EXCEPT ![p] = Append(@, "sync")]
    /\ pc[p] = "sync"
    /\ \/ /\ pc' = [pc EXCEPT ![p] = "persist"]
          /\ UNCHANGED failedStep
       \/ /\ failedStep' = [failedStep EXCEPT ![p] = @ \cup {"sync"}]
          /\ UNCHANGED pc
    /\ UNCHANGED <<fs, tmp, buf, result, self_, image, path, written, crashed,
                   before, interfered, renamedBy, persisted>>

\* Line 119: tmp_file.as_file().sync_all(), with context on failure.
SyncAll(p) ==
    /\ ~crashed
    /\ UNCHANGED pvars
    /\ steps' = [steps EXCEPT ![p] = Append(@, "sync")]
    /\ pc[p] = "sync"
    /\ \/ /\ pc' = [pc EXCEPT ![p] = "persist"]
          /\ UNCHANGED <<tmp, buf, result, failedStep>>
       \/ ReturnErr(p, ErrSync, "sync")
    /\ UNCHANGED <<fs, self_, image, path, written, crashed, before,
                   interfered, renamedBy, persisted>>

\* (A rename that leaves an existing destination in place.)
RenameNoReplace(p) ==
    /\ fs' = [fs EXCEPT ![path[p]] = IF @.exists THEN @ ELSE tmp[p]]
    /\ tmp' = [tmp EXCEPT ![p] = Absent]

\* The rename inside persist: the temp file takes the destination's name,
\* replacing whatever file had it, and its temp name is gone.
Rename(p) ==
    /\ fs' = [fs EXCEPT ![path[p]] = tmp[p]]
    /\ tmp' = [tmp EXCEPT ![p] = Absent]

\* Line 122: tmp_file.persist(path) renames the temp file onto the
\* destination, replacing what is there.  When the rename fails the
\* PersistError returned by persist owns the temp file, and context() wraps
\* that error: the temp file lives on inside the error value save returns.
Persist(p) ==
    /\ ~crashed
    /\ UNCHANGED pvars
    /\ steps' = [steps EXCEPT ![p] = Append(@, "persist")]
    /\ pc[p] = "persist"
    /\ \/ /\ Rename(p)
          /\ pc' = [pc EXCEPT ![p] = "renamed"]
          /\ renamedBy' = [renamedBy EXCEPT ![path[p]] = p]
          /\ persisted' = [persisted EXCEPT ![p] = tmp[p]]
          /\ interfered' = [q \in Procs |->
                IF q # p /\ pc[q] # "idle" /\ path[q] = path[p]
                THEN TRUE ELSE interfered[q]]
          /\ UNCHANGED <<result, failedStep>>
       \/ /\ result' = [result EXCEPT ![p] = ErrPersist]
          /\ failedStep' = [failedStep EXCEPT ![p] = @ \cup {"persist"}]
          /\ pc' = [pc EXCEPT ![p] = "returned"]
          /\ UNCHANGED <<fs, tmp, renamedBy, persisted, interfered>>
    /\ UNCHANGED <<self_, image, path, buf, written, crashed, before>>

\* Line 124: Ok(()).
ReturnOk(p) ==
    /\ ~crashed
    /\ UNCHANGED pvars
    /\ UNCHANGED steps
    /\ pc[p] = "renamed"
    /\ result' = [result EXCEPT ![p] = OkResult]
    /\ pc' = [pc EXCEPT ![p] = "returned"]
    /\ UNCHANGED <<fs, tmp, self_, image, path, buf, written, crashed,
                   before, interfered, failedStep, renamedBy, persisted>>

\* The caller lets go of the Result; an error that still owns the temp file
\* removes it now.
DropResult(p) ==
    /\ ~crashed
    /\ UNCHANGED pvars
    /\ UNCHANGED steps
    /\ pc[p] = "returned"
    /\ tmp' = [tmp EXCEPT ![p] = Absent]
    /\ pc' = [pc EXCEPT ![p] = "done"]
    /\ UNCHANGED <<fs, self_, image, path, buf, written, result, crashed,
                   before, interfered, failedStep, renamedBy, persisted>>

InCall(p) == pc[p] \in {"encode", "sync", "persist", "renamed"}

\* The process dies between two steps of a save: nothing runs any more, no
\* destructor either, and the file system stays as it is.
Crash ==
    /\ ~crashed
    /\ UNCHANGED pvars
    /\ UNCHANGED steps
    /\ \E p \in Procs : InCall(p)
    /\ crashed' = TRUE
    /\ UNCHANGED <<fs, tmp, pc, self_, image, path, buf, written, result,
                   before, interfered, failedStep, renamedBy, persisted>>

Next ==
    \/ \E p \in Procs : CreateTemp(p)
    \/ \E p \in Procs : EncodeWrite(p)
    \/ \E p \in Procs : EncodeError(p)
    \/ \E p \in Procs : DropWriter(p)
    \/ \E p \in Procs : SyncAll(p)
    \/ \E p \in Procs : Persist(p)
    \/ \E p \in Procs : ReturnOk(p)
    \/ \E p \in Procs : DropResult(p)
    \/ Crash

Spec == Init /\ [][Next]_vars

\* ------------------------------------------------------- format resolution
\* Inputs of matching_variant.
RECURSIVE SeqsUpTo(_, _)
SeqsUpTo(S, n) ==
    IF n = 0 THEN {<<>>}
    ELSE LET shorter == SeqsUpTo(S, n - 1)
         IN  shorter \cup {Append(s, x) : s \in {t \in shorter : Len(t) = n - 1}, x \in S}

UpperChar(c) ==
    IF \E i \in 1..Len(LowerAlphabet) : LowerAlphabet[i] = c
    THEN UpperAlphabet[CHOOSE i \in 1..Len(LowerAlphabet) : LowerAlphabet[i] = c]
    ELSE c

\* Every upper/lower-case spelling of the word w.
RECURSIVE CaseSpellings(_)
CaseSpellings(w) ==
    IF w = <<>> THEN {<<>>}
    ELSE {<<c>> \o r : c \in {w[1], UpperChar(w[1])}, r \in CaseSpellings(Tail(w))}

ExtWords == {<<"j", "p", "g">>, <<"j", "p", "e", "g">>, <<"p", "n", "g">>,
             <<"b", "m", "p">>, <<"w", "e", "b", "p">>, <<"g", "i", "f">>, <<>>}
ExtSpellings == UNION {CaseSpellings(w) : w \in ExtWords}

MvDirs == {<<>>, <<"d", ".", "j", "p", "g", "/">>}
MvStems == SeqsUpTo({"x", "."}, MaxStem)
MvVariantValues == {Jpg(10), Jpg(90), Png("Best"), Png("Default"), Bmp, WebP}

\* The path spelled base + "." + e, or just base when there is no extension part.
PathWithExt(base, e) == IF e.some THEN base \o <<".">> \o e.val ELSE base

MvPath == PathWithExt(mvBase, mvExt)

\* No save has been called and no destination exists.
SaveIdle ==
    /\ fs = [d \in Paths |-> Absent]
    /\ tmp = [p \in Procs |-> Absent]
    /\ pc = [p \in Procs |-> "idle"]
    /\ self_ = [p \in Procs |-> DefaultEncoder]
    /\ image = [p \in Procs |-> 1]
    /\ path = [p \in Procs |-> "out.png"]
    /\ buf = [p \in Procs |-> <<>>]
    /\ written = [p \in Procs |-> 0]
    /\ result = [p \in Procs |-> NoResult]
    /\ crashed = FALSE
    /\ before = [p \in Procs |-> Absent]
    /\ interfered = [p \in Procs |-> FALSE]
    /\ failedStep = [p \in Procs |-> {}]
    /\ renamedBy = [d \in Paths |-> "nobody"]
    /\ persisted = [p \in Procs |-> Absent]
    /\ steps = [p \in Procs |-> <<>>]

InitMV ==
    /\ SaveIdle
    /\ CfgOff
    /\ DirOff
    /\ mvBase \in {d \o s : d \in MvDirs, s \in MvStems}
    /\ mvExt \in {Some(e) : e \in ExtSpellings} \cup {None}
    /\ mvVariants \in SeqsUpTo(MvVariantValues, MaxCands)
    /\ mvResult = NoVariant
    /\ mvPc = "ready"

\* A call of matching_variant(path, variants).
Resolve ==
    /\ mvPc = "ready"
    /\ mvResult' = matching_variant(MvPath, mvVariants)
    /\ mvPc' = "done"
    /\ UNCHANGED <<mvBase, mvExt, mvVariants, svars, cvars, dvars>>

NextMV == Resolve

SpecMV == InitMV /\ [][NextMV]_vars

\* ------------------------------------------------- persisted configuration
\* A persisted encoder value: a variant tag with the fields written for it.
\* Tags and field values that no FileEncoder has are among them.
DocTags == {"Jpg", "Png", "Bmp", "WebP", "Gif", "jpg"}
DocLevels == CompressionLevel \cup {"Slow"}
Docs ==
    {[tag |-> t] : t \in DocTags}
        \cup {[tag |-> "Jpg", quality |-> q] : q \in -1..MaxQuality}
        \cup {[tag |-> "Png", compressionlevel |-> c] : c \in DocLevels}

Loaded(v) == [ok |-> TRUE, value |-> v]
Rejected(why) == [ok |-> FALSE, error |-> why]

\* #[derive(Deserialize)] for FileEncoder and CompressionLevel: the tag must
\* name a variant, a struct variant must come with its field, quality must be
\* a u32 (any non-negative value here) and compressionlevel a CompressionLevel.
\* No range is checked on quality.
deserialize(doc) ==
    CASE doc.tag = "Jpg" ->
            IF "quality" \notin DOMAIN doc THEN Rejected("missing field")
            ELSE IF doc.quality < 0 THEN Rejected("invalid value")
            ELSE Loaded(Jpg(doc.quality))
      [] doc.tag = "Png" ->
            IF "compressionlevel" \notin DOMAIN doc THEN Rejected("missing field")
            ELSE IF doc.compressionlevel \notin CompressionLevel
                 THEN Rejected("unknown variant")
            ELSE Loaded(Png(doc.compressionlevel))
      [] doc.tag = "Bmp" -> Loaded(Bmp)
      [] doc.tag = "WebP" -> Loaded(WebP)
      [] OTHER -> Rejected("unknown variant")

InitCfg ==
    /\ SaveIdle
    /\ MvOff
    /\ DirOff
    /\ cfgDoc \in Docs
    /\ cfgLoaded = Rejected("unset")
    /\ cfgCodec = [format |-> "unset"]
    /\ cfgPc = "ready"

\* The persisted configuration is deserialized.
Deserialize ==
    /\ cfgPc = "ready"
    /\ cfgLoaded' = deserialize(cfgDoc)
    /\ cfgPc' = IF cfgLoaded'.ok THEN "loaded" ELSE "rejected"
    /\ UNCHANGED <<cfgDoc, cfgCodec, svars, mvars, dvars>>

\* save is called on the loaded encoder: the match on self sets the codec up
\* (lines 79-115).
CodecSetup ==
    /\ cfgPc = "loaded"
    /\ cfgCodec' = CodecSetting(cfgLoaded.value)
    /\ cfgPc' = "setup"
    /\ UNCHANGED <<cfgDoc, cfgLoaded, svars, mvars, dvars>>

NextCfg == Deserialize \/ CodecSetup

SpecCfg == InitCfg /\ [][NextCfg]_vars

\* ------------------------------------------------------- temp placement
\* Path::parent: the path without its last component; None when the path is
\* empty or ends in the root.
parent(p) ==
    LET comps == components(p)
    IN  IF comps = <<>> \/ comps[Len(comps)] = RootDir THEN None
        ELSE Some(SubSeq(comps, 1, Len(comps) - 1))

\* (A temp file made in the system's temp directory, whatever the path.)
parent_dirSystemTemp(p) == <<RootDir, <<"t", "m", "p">>>>

\* Line 69: path.parent().unwrap_or_else(|| Path::new(".")), as components.
parent_dir(p) == IF parent(p).some THEN parent(p).val ELSE <<CurDir>>

\* The current directory, as the components leading to it from itself.
Cwd == <<>>

\* The directory tempfile_in(dir) creates its file in: the file's name is
\* joined to dir, and a relative result (dir empty or ".", or below them) is
\* taken from the current directory.
TempDirOf(dir) == SelectSeq(dir, LAMBDA c : c # CurDir)

PathChars == {"a", "/", "."}

InitDir ==
    /\ SaveIdle
    /\ MvOff
    /\ CfgOff
    /\ dPath \in SeqsUpTo(PathChars, MaxPathLen)
    /\ dTempDir = <<>>
    /\ dPc = "ready"

\* Lines 69-73 of save: the temp file is created in parent_dir.
PlaceTemp ==
    /\ dPc = "ready"
    /\ dTempDir' = TempDirOf(parent_dir(dPath))
    /\ dPc' = "created"
    /\ UNCHANGED <<dPath, svars, mvars, cvars>>

NextDir == PlaceTemp

SpecDir == InitDir /\ [][NextDir]_vars

\* ------------------------------------------------------------ properties
Returned(p) == pc[p] \in {"returned", "done"}
ReturnedOk(p) == Returned(p) /\ result[p] = OkResult
ReturnedErr(p) == Returned(p) /\ result[p] # OkResult

\* C1: when save has returned an error, whichever phase failed, and no other
\* writer has renamed onto its path meanwhile, the destination holds exactly
\* what it held when the call began (same bytes, or still absent).
C1_ErrorLeavesDestination ==
    \A p \in Procs :
        (ReturnedErr(p) /\ ~interfered[p]) => fs[path[p]] = before[p]

\* A call over an existing destination fails in the encoder after buffered
\* bytes had already been written to its file.
C1_Witness ==
    \E p \in Procs :
        /\ pc[p] = "returned" /\ result[p] = ErrEncode
        /\ written[p] > BufCap
        /\ before[p] = OldContent /\ ~interfered[p]

\* C2: whenever save returns Ok the destination holds the complete byte
\* sequence of the encoder for the image, whatever happened when the buffered
\* writer's remaining bytes were handed to the temp file.
C2_OkMeansComplete ==
    \A p \in Procs :
        (ReturnedOk(p) /\ ~interfered[p])
            => fs[path[p]] = File(Encoding(self_[p], image[p]))

\* C3: in every state the destination holds its earlier content, nothing, or
\* a complete encoding; never a partially written file.
C3_NeverPartial ==
    \A d \in Paths : fs[d] \in {Absent, OldContent} \cup CompleteEncodings

\* C4: with two saves of different images to one destination, the destination
\* always fully matches the encoding of one of the two inputs or the prior
\* content.
C4_NoTornWrite ==
    \A p, q \in Procs :
        (p # q /\ pc[p] # "idle" /\ pc[q] # "idle"
              /\ path[p] = path[q] /\ image[p] # image[q])
            => fs[path[p]] \in {before[p], before[q],
                                File(Encoding(self_[p], image[p])),
                                File(Encoding(self_[q], image[q]))}

\* What does hold of every destination: its bytes are never a mix, they are a
\* prefix of one encoding or the earlier content.
NoMixedBytes ==
    \A d \in Paths :
        \/ fs[d] \in {Absent, OldContent}
        \/ \E e \in CompleteEncodings, n \in 0..EncLen :
               fs[d] = File(Prefix(e.bytes, n))

\* C5: when two saves to one destination both returned Ok, the destination
\* holds the file of the writer whose rename was the last one: the bytes that
\* writer's rename moved, which are that writer's encoding.
C5_LastRenameWins ==
    \A p, q \in Procs :
        (p # q /\ path[p] = path[q] /\ ReturnedOk(p) /\ ReturnedOk(q))
            => LET w == renamedBy[path[p]]
               IN  /\ w \in {p, q}
                   /\ fs[path[p]] = persisted[w]
                   /\ \E n \in 0..EncLen :
                          fs[path[p]] = File(Prefix(Encoding(self_[w], image[w]), n))
                   /\ "flush" \notin failedStep[w]
                          => fs[path[p]] = File(Encoding(self_[w], image[w]))

\* Both saves of different images succeeded on one path, and the one that
\* renamed last is t1.
C5_Witness ==
    /\ ReturnedOk("t1") /\ ReturnedOk("t2")
    /\ path["t1"] = path["t2"] /\ image["t1"] # image["t2"]
    /\ renamedBy[path["t1"]] = "t1"
    /\ fs[path["t1"]] = File(Encoding(self_["t1"], image["t1"]))

\* C6: after a crash during save, the destination is unaffected when the
\* crash came before the rename, and holds the complete new content when it
\* came after the rename.
C6_CrashConsistent ==
    crashed =>
        \A p \in Procs :
            ~interfered[p] =>
                /\ pc[p] \in {"encode", "sync", "persist"} => fs[path[p]] = before[p]
                /\ pc[p] = "renamed" => fs[path[p]] = File(Encoding(self_[p], image[p]))

\* C7: when save has returned, its temp file no longer exists under its temp
\* name.
C7_NoTempAfterReturn ==
    \A p \in Procs : pc[p] = "returned" => tmp[p] = Absent

\* C8: a failure of any step makes save return an error; save never returns Ok
\* after one of its steps failed.
C8_NoFailureSwallowed ==
    \A p \in Procs :
        (pc[p] = "returned" /\ failedStep[p] # {}) => result[p] # OkResult

\* C9: for a variant v and a non-empty stem, matching_variant(stem.ext(v), [v])
\* is v, payload included.
C9_ExtRoundTrip ==
    (/\ mvPc = "done"
     /\ Len(mvVariants) = 1
     /\ mvExt = Some(ext(mvVariants[1]))
     /\ file_name(MvPath).some
     /\ Len(file_name(MvPath).val) > Len(mvExt.val) + 1)
        => mvResult = mvVariants[1]

\* The round trip of a Jpg with its quality.
C9_Witness ==
    /\ mvPc = "done"
    /\ mvVariants = <<Jpg(90)>>
    /\ MvPath = <<"x", ".", "j", "p", "g">>
    /\ mvResult = Jpg(90)

\* Two spellings that differ at most in the case of their letters.
SameUpToCase(a, b) ==
    Len(a) = Len(b) /\ \A i \in 1..Len(a) : UpperChar(a[i]) = UpperChar(b[i])

\* The lower-case word the extension e is a spelling of.
WordOf(e) == CHOOSE w \in ExtWords : SameUpToCase(w, e)

\* C10: the result does not depend on the letter case of the extension (every
\* spelling resolves as the all-lower-case one does), and every spelling of
\* jpeg or jpg resolves as jpg does.
C10_CaseInsensitive ==
    (mvPc = "done" /\ mvExt.some) =>
        /\ mvResult = matching_variant(PathWithExt(mvBase, Some(WordOf(mvExt.val))),
                                       mvVariants)
        /\ WordOf(mvExt.val) \in {<<"j", "p", "e", "g">>, <<"j", "p", "g">>}
               => mvResult = matching_variant(PathWithExt(mvBase, Some(<<"j", "p", "g">>)),
                                              mvVariants)

\* x.JPEG resolved against a list holding a Jpg gives that Jpg.
C10_Witness ==
    /\ mvPc = "done"
    /\ MvPath = <<"x", ".", "J", "P", "E", "G">>
    /\ mvVariants = <<Bmp, Jpg(90)>>
    /\ mvResult = Jpg(90)
\* The candidates whose ext() equals the normalized extension of the path.
MatchingIndexes ==
    {i \in 1..Len(mvVariants) : ext(mvVariants[i]) = NormalizedExt(MvPath)}

\* C11: when no candidate's ext() equals the normalized extension (unknown
\* extension, no extension, empty list, list without Png) the result is Png
\* with Default compression.
C11_FallbackDefault ==
    (mvPc = "done" /\ MatchingIndexes = {}) => mvResult = Png("Default")

\* x.gif against [Jpg, Bmp] falls back to Png/Default.
C11_Witness ==
    /\ mvPc = "done"
    /\ MvPath = <<"x", ".", "g", "i", "f">>
    /\ mvVariants = <<Jpg(10), Bmp>>
    /\ mvResult = Png("Default")

\* C15: when several candidates match, the one with the smallest index is
\* returned with its own payload; candidates before it that do not match are
\* skipped.
C15_FirstMatchWins ==
    (mvPc = "done" /\ MatchingIndexes # {}) =>
        mvResult = mvVariants[CHOOSE i \in MatchingIndexes :
                                  \A j \in MatchingIndexes : i <= j]

\* x.jpg against [Jpg{10}, Jpg{90}] gives Jpg{10}.
C15_Witness ==
    /\ mvPc = "done"
    /\ MvPath = <<"x", ".", "j", "p", "g">>
    /\ mvVariants = <<Jpg(10), Jpg(90)>>
    /\ mvResult = Jpg(10)
\* C12: the quality the JPEG codec is driven with is the given quality clamped
\* into the codec's range: every quality above 100, those of 256 and more
\* included, is encoded at the codec's maximum of 100.
C12_QualityClamped ==
    (cfgPc = "setup" /\ cfgLoaded.value.tag = "Jpg" /\ cfgLoaded.value.quality > 100)
        => cfgCodec.quality = 100

\* C13: deserializing is rejected when the tag is not one of Jpg, Png, Bmp,
\* WebP, and when the Jpg quality is outside 0..100.
C13_RejectsOutOfDomain ==
    (/\ cfgPc # "ready"
     /\ \/ cfgDoc.tag \notin {"Jpg", "Png", "Bmp", "WebP"}
        \/ /\ cfgDoc.tag = "Jpg"
           /\ "quality" \in DOMAIN cfgDoc
           /\ cfgDoc.quality \notin 0..100)
        => ~cfgLoaded.ok
\* The directory holding the entry a path names: the components before the
\* last one, the current directory when there is none before it.
DirOfDestination(p) ==
    LET comps == components(p)
    IN  IF Len(comps) <= 1 THEN Cwd
        ELSE SelectSeq(SubSeq(comps, 1, Len(comps) - 1), LAMBDA c : c # CurDir)

\* C16: the temp file is created in the directory of the destination, the
\* parent directory of path, and in the current directory when path has no
\* parent component (a bare file name included); never anywhere else.
C16_TempInDestinationDir ==
    dPc = "created" => dTempDir = DirOfDestination(dPath)

\* A bare file name, whose parent() is the empty path and not None: the temp
\* file is made in the current directory.
C16_Witness ==
    /\ dPc = "created"
    /\ dPath = <<"a", ".", "a">>
    /\ parent(dPath) = Some(<<>>)
    /\ dTempDir = Cwd
\* s is an initial part of t.
IsPrefix(s, t) == Len(s) <= Len(t) /\ s = SubSeq(t, 1, Len(s))

\* The steps of save in the order the claim gives them.
StepOrder == <<"create", "encode", "flush", "sync", "persist">>

\* The steps of a call are begun in the order of StepOrder, and the rename is
\* begun only after encode and fsync succeeded.
StepsInOrder ==
    \A p \in Procs :
        /\ IsPrefix(steps[p], StepOrder)
        /\ pc[p] \in {"persist", "renamed"} => failedStep[p] \cap {"encode", "sync"} = {}

\* C14: the steps occur in the order create, encode, flush, fsync, rename; the
\* rename is attempted only after encode and fsync succeeded, and fsync is
\* attempted only once all buffered bytes have been handed to the file.
C14_StepOrder ==
    /\ StepsInOrder
    /\ \A p \in Procs :
           pc[p] \in {"sync", "persist"}
               => /\ buf[p] = <<>>
                  /\ tmp[p] = File(Encoding(self_[p], image[p]))

\* A step of thread q: its position or its encoder's progress changes.
StepOf(q) == pc'[q] # pc[q] \/ written'[q] # written[q]

\* C17: concurrent saves never share a temp file: a temp file changes or
\* disappears only in a step of the call that created it, and a destination
\* changes only by the rename of a call saving to it, which puts that call's
\* own temp file there.
C17_OwnTempOnly ==
    [][/\ \A q \in Procs : tmp'[q] # tmp[q] => StepOf(q)
       /\ \A d \in Paths :
              fs'[d] # fs[d] =>
                  \E p \in Procs :
                      /\ pc[p] = "persist" /\ pc'[p] = "renamed"
                      /\ path[p] = d /\ fs'[d] = tmp[p]]_vars

\* One call has failed and removed its temp file while the other call's temp
\* file, in the same directory, still holds its bytes.
C17_Witness ==
    /\ pc["t1"] = "returned" /\ result["t1"] \in {ErrEncode, ErrSync}
    /\ tmp["t1"] = Absent
    /\ pc["t2"] \in {"encode", "sync", "persist"}
    /\ tmp["t2"].exists /\ tmp["t2"].bytes # <<>>

\* The steps the claim names.
RetriedSteps == {"create", "encode", "sync", "persist"}

\* C18: no internal retry: each of create, encode, fsync and rename is begun
\* at most once in a call, and the first of them to fail ends the call with an
\* error, no later step being begun.
C18_NoRetry ==
    \A p \in Procs :
        /\ \A i, j \in 1..Len(steps[p]) :
               (i # j /\ steps[p][i] \in RetriedSteps) => steps[p][i] # steps[p][j]
        /\ \A f \in failedStep[p] \cap RetriedSteps :
               /\ steps[p][Len(steps[p])] = f
               /\ Returned(p)
               /\ result[p] # OkResult

\* A call whose fsync failed: it returned the error after create, encode,
\* flush and one fsync, and no rename.
C18_Witness ==
    \E p \in Procs :
        /\ pc[p] = "returned" /\ result[p] = ErrSync
        /\ steps[p] = <<"create", "encode", "flush", "sync">>

\* The format each variant is written in.
FormatOf(v) ==
    CASE v.tag = "Jpg" -> "jpeg"
      [] v.tag = "Png" -> "png"
      [] v.tag = "Bmp" -> "bmp"
      [] v.tag = "WebP" -> "webp"

\* Every byte a call has produced is of the format of its variant.
BytesByVariant ==
    \A p \in Procs :
        \A f \in {tmp[p], persisted[p], File(buf[p])} :
            f.exists => \A i \in 1..Len(f.bytes) : f.bytes[i].codec.format = FormatOf(self_[p])

\* C19: the format written is that of the active variant, whatever the
\* extension of the path, and save leaves the encoder value as it is.
C19_FormatByVariant ==
    /\ []BytesByVariant
    /\ [][\A p \in Procs : pc[p] # "idle" => self_'[p] = self_[p]]_vars

\* A Jpg saved to out.png: the destination holds JPEG bytes.
C19_Witness ==
    \E p \in Procs :
        /\ ReturnedOk(p) /\ ~interfered[p]
        /\ self_[p] = Jpg(80) /\ path[p] = "out.png"
        /\ fs["out.png"] = File(Encoding(Jpg(80), image[p]))
====
